---- MODULE Spec2Model ----
(***************************************************************************)
(* Model of train() in train_lora.py (LECO): the LoRA concept-editing      *)
(* training loop.  One action per statement group of train(); each         *)
(* collaborator call (model_util, train_util, LoRANetwork, torch) may      *)
(* return or raise.  Tensors are abstracted to the facts the orchestrator  *)
(* controls: which conditioning was used, the adapter state during the     *)
(* call, and whether the call ran under torch.no_grad().                   *)
(***************************************************************************)
EXTENDS Integers, Sequences, FiniteSets, TLC

\* ---------------------------------------------------------------- bounds
MaxIterations == 2

\* ------------------------------------------------------ program constants
DDIM_STEPS == 50

FINE_STEPS == 1000

GUIDANCE_DIFFUSION == 3

DEFAULT_TARGET_REPLACE == "DEFAULT_TARGET_REPLACE"

\* ------------------------------------------------------------ input sets
Prompts == { <<"a", " ", "b">> }

NeutralPrompts == { <<>>, <<"n">> }

Precisions == { "float32", "float16", "bfloat16", "int8" }

Ranks == { 4, 8 }

Alphas == { 1, 2 }

ModuleSets == { DEFAULT_TARGET_REPLACE, "CustomModules" }

\* ------------------------------------------------------- pure functions

\* lines 69-73: weight_dtype defaults to float32, two strings override it
ResolveDtype_DefaultBf16(precision) ==
    IF precision = "float16" THEN "torch.float16"
    ELSE IF precision = "float32" THEN "torch.float32"
    ELSE "torch.bfloat16"

ResolveDtype(precision) ==
    IF precision = "float16" THEN "torch.float16"
    ELSE IF precision = "bfloat16" THEN "torch.bfloat16"
    ELSE "torch.float32"

\* range(iterations), line 95
Range_Inclusive(n) == 0 .. n

Range(n) == 0 .. (n - 1)

\* torch.randint(low, high, (1,)).item(): high is exclusive, line 127
RandintValues_HighInclusive(low, high) == low .. high

RandintValues(low, high) == low .. (high - 1)

\* int(n / d) for n >= 0, d > 0: true division, then truncation toward zero
IntOfTrueDiv(n, d) == n \div d

\* Python round(n / d) for n >= 0, d > 0: nearest integer, ties to even
RoundOfTrueDiv(n, d) ==
    LET q == n \div d
        r == n % d
    IN  IF 2 * r < d THEN q
        ELSE IF 2 * r > d THEN q + 1
        ELSE IF q % 2 = 0 THEN q ELSE q + 1

\* int(timesteps_to * 1000 / DDIM_STEPS), line 148
FineIndex_OffByOne(t) == IntOfTrueDiv(t * FINE_STEPS, DDIM_STEPS - 1)

FineIndex(t) == IntOfTrueDiv(t * FINE_STEPS, DDIM_STEPS)

\* train_util.get_text_embeddings(tokenizer, text_encoder, [p], n_imgs=1):
\* a deterministic function of the prompt text
Embed(p) == [embedding_of |-> p]

NoEmbedding == [embedding_of |-> <<"?">>]

\* prompt.replace(" ", "_"), line 203
ReplaceSpaces(p) == [k \in 1 .. Len(p) |-> IF p[k] = " " THEN "_" ELSE p[k]]

\* f"{concept_name}_last.safetensors", line 206
WeightFileName(p) == [stem |-> ReplaceSpaces(p), suffix |-> "_last.safetensors"]

\* a tensor produced by the model tracks gradients unless it was produced
\* under torch.no_grad()
GradTracking(inNoGrad) == ~inNoGrad

NoTensor == [cond |-> "none", adapter |-> "none", requires_grad |-> FALSE]

NoNetwork == [rank |-> 0, multiplier |-> 0, alpha |-> 0,
              modules |-> "none", dtype |-> "none"]

\* the names released by the final del statement, lines 209-219
DelNames == { "unet", "scheduler", "loss", "optimizer", "network",
              "negative_latents", "neutral_latents", "positive_latents",
              "latents" }

\* LoRANetwork.__enter__ / __exit__ (lora module): the activation protocol
NetworkEnter(state) == "ENABLED"

NetworkExit(state) == "DISABLED"

\* state of the adapter right after LoRANetwork(...) is constructed
NetworkInitialState == "DISABLED"

\* ----------------------------------------------------------------- state
VARIABLES
    pc,                       \* position in train()
    failure,                  \* "none" or the kind of the uncaught exception
    args,                     \* the arguments train() was called with
    weight_dtype,
    network,                  \* the LoRANetwork as constructed
    adapter,                  \* "none" | "DISABLED" | "ENABLED"
    scopeDepth,               \* number of open `with network:` scopes
    noGrad,                   \* inside a `with torch.no_grad():` block
    params,                   \* adapter parameters: optimizer steps applied
    neutral_text_embeddings,
    positive_text_embeddings,
    nextIndex,                \* next value the range iterator yields
    schedulerSteps,           \* last scheduler.set_timesteps(n)
    timesteps_to,
    current_timestep,         \* index used in scheduler.timesteps[...]
    positive_latents,
    neutral_latents,
    negative_latents,
    calls,                    \* sampler calls of the current iteration
    bound,                    \* local names currently bound
    saved                     \* weight files written

vars == << pc, failure, args, weight_dtype, network, adapter, scopeDepth,
           noGrad, params, neutral_text_embeddings, positive_text_embeddings,
           nextIndex, schedulerSteps, timesteps_to, current_timestep,
           positive_latents, neutral_latents, negative_latents, calls,
           bound, saved >>

Init ==
    /\ pc = "resolve_precision"
    /\ failure = "none"
    /\ args \in [ prompt : Prompts, neutral_prompt : NeutralPrompts,
                  modules : ModuleSets, iterations : 0 .. MaxIterations,
                  rank : Ranks, alpha : Alphas, precision : Precisions ]
    /\ weight_dtype = "none"
    /\ network = NoNetwork
    /\ adapter = "none"
    /\ scopeDepth = 0
    /\ noGrad = FALSE
    /\ params = 0
    /\ neutral_text_embeddings = NoEmbedding
    /\ positive_text_embeddings = NoEmbedding
    /\ nextIndex = 0
    /\ schedulerSteps = 0
    /\ timesteps_to = 0
    /\ current_timestep = 0
    /\ positive_latents = NoTensor
    /\ neutral_latents = NoTensor
    /\ negative_latents = NoTensor
    /\ calls = << >>
    /\ bound = {}
    /\ saved = << >>

\* an uncaught exception leaves train(): every open context manager exits
Propagate(kind) ==
    /\ pc' = "failed"
    /\ failure' = kind
    /\ noGrad' = FALSE

\* --------------------------------------------------------- initialization

\* lines 69-73
ResolvePrecision ==
    /\ pc = "resolve_precision"
    /\ weight_dtype' = ResolveDtype(args.precision)
    /\ pc' = "load_models"
    /\ UNCHANGED << failure, args, network, adapter, scopeDepth, noGrad,
                    params, neutral_text_embeddings, positive_text_embeddings,
                    nextIndex, schedulerSteps, timesteps_to, current_timestep,
                    positive_latents, neutral_latents, negative_latents,
                    calls, bound, saved >>

\* lines 75-86
LoadModels ==
    /\ pc = "load_models"
    /\ bound' = bound \cup { "tokenizer", "text_encoder", "unet", "scheduler" }
    /\ pc' = "create_network"
    /\ UNCHANGED << failure, args, weight_dtype, network, adapter, scopeDepth,
                    noGrad, params, neutral_text_embeddings,
                    positive_text_embeddings, nextIndex, schedulerSteps,
                    timesteps_to, current_timestep, positive_latents,
                    neutral_latents, negative_latents, calls, saved >>

\* lines 88-93: LoRANetwork(unet, rank=rank, multiplier=1.0, alpha=1)
CreateNetwork ==
    /\ pc = "create_network"
    /\ network' = [rank |-> args.rank, multiplier |-> 1, alpha |-> 1,
                   modules |-> DEFAULT_TARGET_REPLACE, dtype |-> weight_dtype]
    /\ adapter' = NetworkInitialState
    /\ bound' = bound \cup { "network", "optimizer", "criteria" }
    /\ pc' = "embed"
    /\ UNCHANGED << failure, args, weight_dtype, scopeDepth, noGrad, params,
                    neutral_text_embeddings, positive_text_embeddings,
                    nextIndex, schedulerSteps, timesteps_to, current_timestep,
                    positive_latents, neutral_latents, negative_latents,
                    calls, saved >>

\* lines 97-103: both embeddings, under torch.no_grad()
ComputeEmbeddings ==
    /\ pc = "embed"
    /\ neutral_text_embeddings' = Embed(<< >>)
    /\ positive_text_embeddings' = Embed(args.prompt)
    /\ bound' = bound \cup { "neutral_text_embeddings",
                             "positive_text_embeddings" }
    /\ pc' = "release_encoder"
    /\ UNCHANGED << failure, args, weight_dtype, network, adapter, scopeDepth,
                    noGrad, params, nextIndex, schedulerSteps, timesteps_to,
                    current_timestep, positive_latents, neutral_latents,
                    negative_latents, calls, saved >>

\* lines 105-115
ReleaseEncoder ==
    /\ pc = "release_encoder"
    /\ bound' = bound \ { "tokenizer", "text_encoder" }
    /\ pc' = "loop"
    /\ UNCHANGED << failure, args, weight_dtype, network, adapter, scopeDepth,
                    noGrad, params, neutral_text_embeddings,
                    positive_text_embeddings, nextIndex, schedulerSteps,
                    timesteps_to, current_timestep, positive_latents,
                    neutral_latents, negative_latents, calls, saved >>

\* load_models, LoRANetwork(...) or get_text_embeddings raises
SetupRaises ==
    /\ pc \in { "load_models", "create_network", "embed" }
    /\ Propagate("collaborator")
    /\ UNCHANGED << args, weight_dtype, network, adapter, scopeDepth, params,
                    neutral_text_embeddings, positive_text_embeddings,
                    nextIndex, schedulerSteps, timesteps_to, current_timestep,
                    positive_latents, neutral_latents, negative_latents,
                    calls, bound, saved >>

\* ------------------------------------------------------------ the loop

\* line 117: the iterator yields the next index
LoopNext ==
    /\ pc = "loop"
    /\ nextIndex \in Range(args.iterations)
    /\ nextIndex' = nextIndex + 1
    /\ bound' = bound \cup { "i" }
    /\ calls' = << >>
    /\ pc' = "prepare"
    /\ UNCHANGED << failure, args, weight_dtype, network, adapter, scopeDepth,
                    noGrad, params, neutral_text_embeddings,
                    positive_text_embeddings, schedulerSteps, timesteps_to,
                    current_timestep, positive_latents, neutral_latents,
                    negative_latents, saved >>

\* line 117: the iterator is exhausted
LoopExit ==
    /\ pc = "loop"
    /\ nextIndex \notin Range(args.iterations)
    /\ pc' = "save"
    /\ UNCHANGED << failure, args, weight_dtype, network, adapter, scopeDepth,
                    noGrad, params, neutral_text_embeddings,
                    positive_text_embeddings, nextIndex, schedulerSteps,
                    timesteps_to, current_timestep, positive_latents,
                    neutral_latents, negative_latents, calls, bound, saved >>

\* lines 121-131: enter no_grad, coarse schedule, zero_grad, draw, latents
Prepare ==
    /\ pc = "prepare"
    /\ noGrad' = TRUE
    /\ schedulerSteps' = DDIM_STEPS
    /\ timesteps_to' \in RandintValues(1, DDIM_STEPS - 1)
    /\ bound' = bound \cup { "timesteps_to", "latents" }
    /\ pc' = "with_network_1"
    /\ UNCHANGED << failure, args, weight_dtype, network, adapter, scopeDepth,
                    params, neutral_text_embeddings, positive_text_embeddings,
                    nextIndex, current_timestep, positive_latents,
                    neutral_latents, negative_latents, calls, saved >>

\* line 132: `with network:` is entered
EnterScope1 ==
    /\ pc = "with_network_1"
    /\ adapter' = NetworkEnter(adapter)
    /\ scopeDepth' = scopeDepth + 1
    /\ pc' = "diffusion"
    /\ UNCHANGED << failure, args, weight_dtype, network, noGrad, params,
                    neutral_text_embeddings, positive_text_embeddings,
                    nextIndex, schedulerSteps, timesteps_to, current_timestep,
                    positive_latents, neutral_latents, negative_latents,
                    calls, bound, saved >>

\* the record of one sampler call
Call(kind, cond, guidance) ==
    [ call |-> kind, cond |-> cond, guidance |-> guidance,
      adapter |-> adapter, nograd |-> noGrad ]

\* the tensor a predict_noise call returns
Prediction(cond) ==
    [ cond |-> cond, adapter |-> adapter,
      requires_grad |-> GradTracking(noGrad) ]

\* a variant of the first scope that is left open after the call returns
Diffusion_ScopeLeftOpen ==
    /\ pc = "diffusion"
    /\ calls' = Append(calls, Call("diffusion", "positive_text_embeddings",
                                   GUIDANCE_DIFFUSION))
    /\ bound' = bound \cup { "denoised_latents" }
    /\ pc' = "fine_timestep"
    /\ UNCHANGED << failure, args, weight_dtype, network, adapter, scopeDepth,
                    noGrad, params, neutral_text_embeddings,
                    positive_text_embeddings, nextIndex, schedulerSteps,
                    timesteps_to, current_timestep, positive_latents,
                    neutral_latents, negative_latents, saved >>

\* lines 132-143: train_util.diffusion returns, the scope is left
Diffusion ==
    /\ pc = "diffusion"
    /\ calls' = Append(calls, Call("diffusion", "positive_text_embeddings",
                                   GUIDANCE_DIFFUSION))
    /\ bound' = bound \cup { "denoised_latents" }
    /\ adapter' = NetworkExit(adapter)
    /\ scopeDepth' = scopeDepth - 1
    /\ pc' = "fine_timestep"
    /\ UNCHANGED << failure, args, weight_dtype, network, noGrad, params,
                    neutral_text_embeddings, positive_text_embeddings,
                    nextIndex, schedulerSteps, timesteps_to, current_timestep,
                    positive_latents, neutral_latents, negative_latents,
                    saved >>

\* a variant in which an exception skips the scope's exit
DiffusionRaises_NoExit ==
    /\ pc = "diffusion"
    /\ Propagate("collaborator")
    /\ UNCHANGED << args, weight_dtype, network, adapter, scopeDepth, params,
                    neutral_text_embeddings, positive_text_embeddings,
                    nextIndex, schedulerSteps, timesteps_to, current_timestep,
                    positive_latents, neutral_latents, negative_latents,
                    calls, bound, saved >>

\* lines 132-143: train_util.diffusion raises inside the scope
DiffusionRaises ==
    /\ pc = "diffusion"
    /\ adapter' = NetworkExit(adapter)
    /\ scopeDepth' = scopeDepth - 1
    /\ Propagate("collaborator")
    /\ UNCHANGED << args, weight_dtype, network, params,
                    neutral_text_embeddings, positive_text_embeddings,
                    nextIndex, schedulerSteps, timesteps_to, current_timestep,
                    positive_latents, neutral_latents, negative_latents,
                    calls, bound, saved >>

\* lines 145-149: fine schedule, scheduler.timesteps[int(...)]
SetFineTimestep ==
    /\ pc = "fine_timestep"
    /\ schedulerSteps' = FINE_STEPS
    /\ IF FineIndex(timesteps_to) \in 0 .. (FINE_STEPS - 1)
       THEN /\ current_timestep' = FineIndex(timesteps_to)
            /\ bound' = bound \cup { "current_timestep" }
            /\ pc' = "predict_positive"
            /\ UNCHANGED << failure, noGrad >>
       ELSE /\ Propagate("IndexError")
            /\ UNCHANGED << current_timestep, bound >>
    /\ UNCHANGED << args, weight_dtype, network, adapter, scopeDepth, params,
                    neutral_text_embeddings, positive_text_embeddings,
                    nextIndex, timesteps_to, positive_latents,
                    neutral_latents, negative_latents, calls, saved >>

\* lines 152-160: target-conditioned reference prediction
PredictPositive ==
    /\ pc = "predict_positive"
    /\ calls' = Append(calls, Call("predict_noise",
                                   "positive_text_embeddings", 1))
    /\ positive_latents' = Prediction("positive_text_embeddings")
    /\ bound' = bound \cup { "positive_latents" }
    /\ pc' = "predict_neutral"
    /\ UNCHANGED << failure, args, weight_dtype, network, adapter, scopeDepth,
                    noGrad, params, neutral_text_embeddings,
                    positive_text_embeddings, nextIndex, schedulerSteps,
                    timesteps_to, current_timestep, neutral_latents,
                    negative_latents, saved >>

\* a variant in which the no_grad block also covers the third prediction
PredictNeutral_NoGradKept ==
    /\ pc = "predict_neutral"
    /\ calls' = Append(calls, Call("predict_noise",
                                   "neutral_text_embeddings", 1))
    /\ neutral_latents' = Prediction("neutral_text_embeddings")
    /\ bound' = bound \cup { "neutral_latents" }
    /\ pc' = "with_network_2"
    /\ UNCHANGED << failure, args, weight_dtype, network, adapter, scopeDepth,
                    noGrad, params, neutral_text_embeddings,
                    positive_text_embeddings, nextIndex, schedulerSteps,
                    timesteps_to, current_timestep, positive_latents,
                    negative_latents, saved >>

\* lines 161-169: neutral-conditioned reference prediction; the no_grad
\* block ends after it
PredictNeutral ==
    /\ pc = "predict_neutral"
    /\ calls' = Append(calls, Call("predict_noise",
                                   "neutral_text_embeddings", 1))
    /\ neutral_latents' = Prediction("neutral_text_embeddings")
    /\ bound' = bound \cup { "neutral_latents" }
    /\ noGrad' = FALSE
    /\ pc' = "with_network_2"
    /\ UNCHANGED << failure, args, weight_dtype, network, adapter, scopeDepth,
                    params, neutral_text_embeddings, positive_text_embeddings,
                    nextIndex, schedulerSteps, timesteps_to, current_timestep,
                    positive_latents, negative_latents, saved >>

\* a call made under no_grad and outside any scope raises (lines 121-169)
NoGradStepRaises ==
    /\ pc \in { "prepare", "predict_positive", "predict_neutral" }
    /\ Propagate("collaborator")
    /\ UNCHANGED << args, weight_dtype, network, adapter, scopeDepth, params,
                    neutral_text_embeddings, positive_text_embeddings,
                    nextIndex, schedulerSteps, timesteps_to, current_timestep,
                    positive_latents, neutral_latents, negative_latents,
                    calls, bound, saved >>

\* line 171: the second `with network:` is entered
EnterScope2 ==
    /\ pc = "with_network_2"
    /\ adapter' = NetworkEnter(adapter)
    /\ scopeDepth' = scopeDepth + 1
    /\ pc' = "predict_negative"
    /\ UNCHANGED << failure, args, weight_dtype, network, noGrad, params,
                    neutral_text_embeddings, positive_text_embeddings,
                    nextIndex, schedulerSteps, timesteps_to, current_timestep,
                    positive_latents, neutral_latents, negative_latents,
                    calls, bound, saved >>

\* lines 171-180: the trainable prediction, the scope is left
PredictNegative ==
    /\ pc = "predict_negative"
    /\ calls' = Append(calls, Call("predict_noise",
                                   "positive_text_embeddings", 1))
    /\ negative_latents' = Prediction("positive_text_embeddings")
    /\ bound' = bound \cup { "negative_latents" }
    /\ adapter' = NetworkExit(adapter)
    /\ scopeDepth' = scopeDepth - 1
    /\ pc' = "detach"
    /\ UNCHANGED << failure, args, weight_dtype, network, noGrad, params,
                    neutral_text_embeddings, positive_text_embeddings,
                    nextIndex, schedulerSteps, timesteps_to, current_timestep,
                    positive_latents, neutral_latents, saved >>

\* lines 171-180: predict_noise raises inside the second scope
PredictNegativeRaises ==
    /\ pc = "predict_negative"
    /\ adapter' = NetworkExit(adapter)
    /\ scopeDepth' = scopeDepth - 1
    /\ Propagate("collaborator")
    /\ UNCHANGED << args, weight_dtype, network, params,
                    neutral_text_embeddings, positive_text_embeddings,
                    nextIndex, schedulerSteps, timesteps_to, current_timestep,
                    positive_latents, neutral_latents, negative_latents,
                    calls, bound, saved >>

\* lines 182-183
Detach ==
    /\ pc = "detach"
    /\ positive_latents' = [positive_latents EXCEPT !.requires_grad = FALSE]
    /\ neutral_latents' = [neutral_latents EXCEPT !.requires_grad = FALSE]
    /\ pc' = "loss"
    /\ UNCHANGED << failure, args, weight_dtype, network, adapter, scopeDepth,
                    noGrad, params, neutral_text_embeddings,
                    positive_text_embeddings, nextIndex, schedulerSteps,
                    timesteps_to, current_timestep, negative_latents, calls,
                    bound, saved >>

\* lines 186-194
ComputeLoss ==
    /\ pc = "loss"
    /\ bound' = bound \cup { "loss" }
    /\ pc' = "backward"
    /\ UNCHANGED << failure, args, weight_dtype, network, adapter, scopeDepth,
                    noGrad, params, neutral_text_embeddings,
                    positive_text_embeddings, nextIndex, schedulerSteps,
                    timesteps_to, current_timestep, positive_latents,
                    neutral_latents, negative_latents, calls, saved >>

\* lines 196-197: loss.backward(); optimizer.step()
BackwardStep ==
    /\ pc = "backward"
    /\ params' = params + 1
    /\ pc' = "loop"
    /\ UNCHANGED << failure, args, weight_dtype, network, adapter, scopeDepth,
                    noGrad, neutral_text_embeddings, positive_text_embeddings,
                    nextIndex, schedulerSteps, timesteps_to, current_timestep,
                    positive_latents, neutral_latents, negative_latents,
                    calls, bound, saved >>

\* the loss, backward or optimizer call raises (lines 186-197)
UpdateRaises ==
    /\ pc \in { "loss", "backward" }
    /\ Propagate("collaborator")
    /\ UNCHANGED << args, weight_dtype, network, adapter, scopeDepth, params,
                    neutral_text_embeddings, positive_text_embeddings,
                    nextIndex, schedulerSteps, timesteps_to, current_timestep,
                    positive_latents, neutral_latents, negative_latents,
                    calls, bound, saved >>

\* ------------------------------------------------------------ persistence

\* lines 199-207
Save ==
    /\ pc = "save"
    /\ saved' = Append(saved, [ file |-> WeightFileName(args.prompt),
                                dtype |-> weight_dtype,
                                rank |-> network.rank,
                                alpha |-> network.alpha,
                                params |-> params ])
    /\ bound' = bound \cup { "concept_name" }
    /\ pc' = "teardown"
    /\ UNCHANGED << failure, args, weight_dtype, network, adapter, scopeDepth,
                    noGrad, params, neutral_text_embeddings,
                    positive_text_embeddings, nextIndex, schedulerSteps,
                    timesteps_to, current_timestep, positive_latents,
                    neutral_latents, negative_latents, calls >>

\* mkdir or save_weights raises (lines 201-207)
SaveRaises ==
    /\ pc = "save"
    /\ Propagate("collaborator")
    /\ UNCHANGED << args, weight_dtype, network, adapter, scopeDepth, params,
                    neutral_text_embeddings, positive_text_embeddings,
                    nextIndex, schedulerSteps, timesteps_to, current_timestep,
                    positive_latents, neutral_latents, negative_latents,
                    calls, bound, saved >>

\* lines 209-223: del of the per-run names; an unbound name raises
Teardown ==
    /\ pc = "teardown"
    /\ IF DelNames \subseteq bound
       THEN /\ bound' = bound \ DelNames
            /\ pc' = "done"
            /\ UNCHANGED << failure, noGrad >>
       ELSE /\ Propagate("UnboundLocalError")
            /\ UNCHANGED bound
    /\ UNCHANGED << args, weight_dtype, network, adapter, scopeDepth, params,
                    neutral_text_embeddings, positive_text_embeddings,
                    nextIndex, schedulerSteps, timesteps_to, current_timestep,
                    positive_latents, neutral_latents, negative_latents,
                    calls, saved >>

Next ==
    \/ ResolvePrecision
    \/ LoadModels
    \/ CreateNetwork
    \/ ComputeEmbeddings
    \/ ReleaseEncoder
    \/ SetupRaises
    \/ LoopNext
    \/ LoopExit
    \/ Prepare
    \/ EnterScope1
    \/ Diffusion
    \/ DiffusionRaises
    \/ SetFineTimestep
    \/ PredictPositive
    \/ PredictNeutral
    \/ NoGradStepRaises
    \/ EnterScope2
    \/ PredictNegative
    \/ PredictNegativeRaises
    \/ Detach
    \/ ComputeLoss
    \/ BackwardStep
    \/ UpdateRaises
    \/ Save
    \/ SaveRaises
    \/ Teardown

Spec == Init /\ [][Next]_vars

\* ================================================================ claims

\* the sampler calls of one iteration, in order (section 4.2 steps 5, 7, 8)
ExpectedCalls ==
    << [call |-> "diffusion", cond |-> "positive_text_embeddings",
        adapter |-> "ENABLED"],
       [call |-> "predict_noise", cond |-> "positive_text_embeddings",
        adapter |-> "DISABLED"],
       [call |-> "predict_noise", cond |-> "neutral_text_embeddings",
        adapter |-> "DISABLED"],
       [call |-> "predict_noise", cond |-> "positive_text_embeddings",
        adapter |-> "ENABLED"] >>

AfterThirdPrediction == pc \in { "detach", "loss", "backward" }

AfterFineTimestep ==
    pc \in { "predict_positive", "predict_neutral", "with_network_2",
             "predict_negative", "detach", "loss", "backward" }

InLoopBody ==
    pc \in { "prepare", "with_network_1", "diffusion", "fine_timestep",
             "predict_positive", "predict_neutral", "with_network_2",
             "predict_negative", "detach", "loss", "backward" }

\* C1: in every iteration the sampler calls are, in this order, the partial
\* denoising with the adapter ENABLED, the target- and neutral-conditioned
\* reference predictions with the adapter DISABLED, and the trainable
\* prediction with the adapter ENABLED; no call is made in the other state,
\* and an iteration that reaches the loss has made all four.
C1_AdapterStatePerCall ==
    /\ Len(calls) <= Len(ExpectedCalls)
    /\ \A k \in 1 .. Len(calls) :
          /\ calls[k].call = ExpectedCalls[k].call
          /\ calls[k].cond = ExpectedCalls[k].cond
          /\ calls[k].adapter = ExpectedCalls[k].adapter
    /\ AfterThirdPrediction => Len(calls) = 4
    /\ (pc = "loop" /\ nextIndex > 0) => Len(calls) = 4

C1_Witness ==
    /\ pc = "detach"
    /\ nextIndex = 2
    /\ Len(calls) = 4
    /\ calls[2].adapter = "DISABLED"
    /\ calls[4].adapter = "ENABLED"

C3_CoarseIndexRange ==
    "timesteps_to" \in bound =>
        /\ timesteps_to >= 1
        /\ timesteps_to <= DDIM_STEPS - 2
        /\ timesteps_to # 0
        /\ timesteps_to # DDIM_STEPS - 1

C3_Witness ==
    /\ "timesteps_to" \in bound
    /\ pc = "with_network_1"
    /\ timesteps_to = DDIM_STEPS - 2

\* C4: the index looked up in the fine schedule equals
\* round(timesteps_to * 1000 / 50) for the index drawn in the same iteration
\* and lies in [0, 1000); truncation agrees with rounding for every
\* admissible coarse index.
C4_FineIndexIsRounded ==
    AfterFineTimestep =>
        /\ current_timestep = RoundOfTrueDiv(timesteps_to * 1000, 50)
        /\ current_timestep >= 0
        /\ current_timestep < 1000

C4_Witness ==
    /\ pc = "predict_positive"
    /\ timesteps_to = 48
    /\ current_timestep = 960

\* C5: when the loss is computed, the two adapter-disabled predictions have
\* gradient tracking off and were produced under torch.no_grad(), and the
\* adapter-enabled prediction is the only one produced outside it and the
\* only one that tracks gradients.
C5_OnlyTrainablePredictionTracksGrad ==
    pc = "loss" =>
        /\ positive_latents.requires_grad = FALSE
        /\ neutral_latents.requires_grad = FALSE
        /\ negative_latents.requires_grad = TRUE
        /\ positive_latents.adapter = "DISABLED"
        /\ neutral_latents.adapter = "DISABLED"
        /\ negative_latents.adapter = "ENABLED"
        /\ calls[2].nograd
        /\ calls[3].nograd
        /\ ~calls[4].nograd

C5_Witness ==
    /\ pc = "loss"
    /\ negative_latents.requires_grad
    /\ ~positive_latents.requires_grad

\* C6: the neutral embedding is the embedding of the neutral prompt given to
\* train().
C6_NeutralEmbeddingOfNeutralPrompt ==
    "neutral_text_embeddings" \in bound =>
        neutral_text_embeddings = Embed(args.neutral_prompt)

\* C7: the adapter has the rank, the alpha and the module set given to
\* train().
C7_AdapterBuiltFromArguments ==
    "network" \in bound =>
        /\ network.rank = args.rank
        /\ network.alpha = args.alpha
        /\ network.modules = args.modules

\* C8: with iterations = 0 the loop body is never entered (no sampler call,
\* no optimizer step) and, once the save has run, exactly one weight file
\* exists and it holds the adapter's initial parameters.
C8_ZeroIterationsSavesInitial ==
    args.iterations = 0 =>
        /\ ~InLoopBody
        /\ calls = << >>
        /\ params = 0
        /\ nextIndex = 0
        /\ Len(saved) <= 1
        /\ \A k \in 1 .. Len(saved) : saved[k].params = 0
        /\ pc \in { "teardown", "done" } => Len(saved) = 1
        /\ (pc = "failed" /\ failure # "collaborator") => Len(saved) = 1

C8_Witness ==
    /\ args.iterations = 0
    /\ Len(saved) = 1
    /\ saved[1].params = 0

\* C9: an unrecognized precision string resolves to float32 without failing,
\* each recognized string resolves to its own dtype, and the adapter and the
\* saved weights use the resolved dtype.
C9_PrecisionFallback ==
    /\ failure # "none" => weight_dtype # "none"
    /\ pc # "resolve_precision" =>
          /\ args.precision = "float32" => weight_dtype = "torch.float32"
          /\ args.precision = "float16" => weight_dtype = "torch.float16"
          /\ args.precision = "bfloat16" => weight_dtype = "torch.bfloat16"
          /\ args.precision \notin { "float32", "float16", "bfloat16" } =>
                weight_dtype = "torch.float32"
    /\ "network" \in bound => network.dtype = weight_dtype
    /\ \A k \in 1 .. Len(saved) : saved[k].dtype = weight_dtype

C9_Witness ==
    /\ args.precision = "int8"
    /\ Len(saved) = 1
    /\ saved[1].dtype = "torch.float32"

\* C10: for every iteration count >= 0, a run in which no collaborator
\* raises reaches "Done.": the only way train() fails is a collaborator
\* failure.
C10_TeardownNeverFails ==
    pc = "failed" => failure = "collaborator"

====
